---- MODULE Spec2Model ----
(***************************************************************************)
(* Model of the NSG surveillance demo.                                     *)
(*   backend.py  VideoProcessor.process_video : the frame sampling loop    *)
(*   app.py      the Streamlit dashboard: session state, the Start         *)
(*               Analysis handler and the Reports tab / Export handler     *)
(* SpecVideo runs one call of process_video; SpecApp runs the dashboard.   *)
(***************************************************************************)
EXTENDS Integers, Sequences, FiniteSets, TLC

VARIABLES
    \* ---- backend.py, process_video ----
    call,             \* the arguments and the source behind video_path
    cap,              \* the cv2.VideoCapture handle
    frame_count,      \* local frame_count
    processed_count,  \* local processed_count
    vpc,              \* position in process_video
    exit,             \* how the frame loop ended
    sampled,          \* the frames that reached the processing part, in order
    reads,            \* number of cap.read() calls made
    \* ---- app.py ----
    detections,           \* st.session_state.detections
    alerts,               \* st.session_state.alerts
    processed,            \* st.session_state.processed
    uploaded_file,        \* uploaded_file is not None
    confidence_threshold, \* the slider, in hundredths
    pc,                   \* position of the script: "idle", "loop", "alerts", "processed"
    i,                    \* the progress loop counter
    download,             \* the report st.download_button offers now, if any
    now,                  \* datetime.now(), in ticks
    exports,              \* the exports made since the last Start Analysis click
    run_threshold,        \* the slider value of the last completed run
    last_run,             \* how the last started run ended
    reports_tab,          \* what the Reports tab showed when it was last rendered
    completed_runs        \* number of completed runs

videoVars == <<call, cap, frame_count, processed_count, vpc, exit, sampled, reads>>
appVars == <<detections, alerts, processed, uploaded_file, confidence_threshold,
             pc, i, download, now, exports, run_threshold, last_run, reports_tab,
             completed_runs>>
vars == <<videoVars, appVars>>

\* ------------------------------------------------------------------ bounds
MaxFrames == 8
MaxSkip == 6
MaxClock == 3
MaxRuns == 2

\* ============================================================ backend.py
\* The sources and arguments a call is made with. fps = 0 is what a capture
\* reports when the container gives no frame rate (get_video_info guards it).
FrameCounts == (0 .. MaxFrames) \cup {300}
FpsValues == {0, 25, 30}
Calls == [frames : FrameCounts, fps : FpsValues, openable : BOOLEAN,
          frame_skip : 1 .. MaxSkip]

\* cv2.VideoCapture(video_path)
VideoCapture(c) ==
    [opened |-> c.openable, released |-> FALSE, pos |-> 0,
     total |-> c.frames, fps |-> c.fps]

NoCapture == [opened |-> FALSE, released |-> FALSE, pos |-> 0, total |-> 0, fps |-> 0]

\* cap.release()
ReleaseLeak(c) == c
Release(c) == [c EXCEPT !.opened = FALSE, !.released = TRUE]

\* the test of line 101, negated: the frame is processed
ShouldProcessZeroBased(count, skip) == (count - 1) % skip = 0
ShouldProcess(count, skip) == count % skip = 0

\* timestamp = frame_count / fps, kept as the exact fraction <<num, den>>
TimestampOfIndex(count, fps) == <<count - 1, fps>>
Timestamp(count, fps) == <<count, fps>>

\* cv2.waitKey(1) & 0xFF == ord('q'); waitKey gives -1 when no key is pressed
KeyCodes == {-1, 81, 113, 369}
QuitKey(key) == (key % 256) = 113

VideoInit ==
    /\ call \in Calls
    /\ cap = NoCapture
    /\ frame_count = 0
    /\ processed_count = 0
    /\ vpc = "call"
    /\ exit = "none"
    /\ sampled = <<>>
    /\ reads = 0

\* lines 83-87: the capture does not open, return
OpenFails ==
    /\ vpc = "call"
    /\ ~ VideoCapture(call).opened
    /\ cap' = VideoCapture(call)
    /\ vpc' = "returned"
    /\ exit' = "not_opened"
    /\ UNCHANGED <<call, frame_count, processed_count, sampled, reads>>
    /\ UNCHANGED appVars

\* lines 83-90
OpenSucceeds ==
    /\ vpc = "call"
    /\ VideoCapture(call).opened
    /\ cap' = VideoCapture(call)
    /\ frame_count' = 0
    /\ processed_count' = 0
    /\ vpc' = "loop"
    /\ UNCHANGED <<call, exit, sampled, reads>>
    /\ UNCHANGED appVars

\* lines 93-96 then 118: ret is False, break, release
ReadExhausted ==
    /\ vpc = "loop"
    /\ cap.pos >= cap.total
    /\ reads' = reads + 1
    /\ cap' = Release(cap)
    /\ vpc' = "returned"
    /\ exit' = "exhausted"
    /\ UNCHANGED <<call, frame_count, processed_count, sampled>>
    /\ UNCHANGED appVars

\* lines 93-102: a frame is read and skipped
ReadSkipped ==
    /\ vpc = "loop"
    /\ cap.pos < cap.total
    /\ ~ ShouldProcess(frame_count + 1, call.frame_skip)
    /\ reads' = reads + 1
    /\ cap' = [cap EXCEPT !.pos = @ + 1]
    /\ frame_count' = frame_count + 1
    /\ UNCHANGED <<call, processed_count, vpc, exit, sampled>>
    /\ UNCHANGED appVars

\* lines 93-116 (and 118 on 'q'): a frame is read, processed and shown
ProcessFrame ==
    /\ vpc = "loop"
    /\ cap.pos < cap.total
    /\ ShouldProcess(frame_count + 1, call.frame_skip)
    /\ cap.fps # 0
    /\ reads' = reads + 1
    /\ frame_count' = frame_count + 1
    /\ processed_count' = processed_count + 1
    /\ sampled' = Append(sampled, [index |-> cap.pos,
                                   timestamp |-> Timestamp(frame_count', cap.fps)])
    /\ \E key \in KeyCodes :
          IF QuitKey(key)
          THEN /\ cap' = Release([cap EXCEPT !.pos = @ + 1])
               /\ vpc' = "returned"
               /\ exit' = "stopped"
          ELSE /\ cap' = [cap EXCEPT !.pos = @ + 1]
               /\ UNCHANGED <<vpc, exit>>
    /\ UNCHANGED call
    /\ UNCHANGED appVars

\* lines 93-108 with fps = 0: the division raises ZeroDivisionError, which
\* leaves process_video without reaching line 118
ProcessFrameRaises ==
    /\ vpc = "loop"
    /\ cap.pos < cap.total
    /\ ShouldProcess(frame_count + 1, call.frame_skip)
    /\ cap.fps = 0
    /\ reads' = reads + 1
    /\ cap' = [cap EXCEPT !.pos = @ + 1]
    /\ frame_count' = frame_count + 1
    /\ processed_count' = processed_count + 1
    /\ vpc' = "raised"
    /\ exit' = "error"
    /\ UNCHANGED <<call, sampled>>
    /\ UNCHANGED appVars

\* ================================================================ app.py
\* the values of the Confidence Threshold slider, in hundredths
Thresholds == {30 + 5 * k : k \in 0 .. 13}

\* lines 162-184; confidence in hundredths, timestamp 'HH:MM:SS' as <<h, m, s>>
MockDetectionsUnordered ==
    << [type |-> "person", confidence |-> 88, timestamp |-> <<0, 0, 12>>,
        location |-> <<450, 100, 180, 320>>,
        watchlist_match |-> TRUE, watchlist_id |-> "WL-2847"],
       [type |-> "person", confidence |-> 92, timestamp |-> <<0, 0, 5>>,
        location |-> <<120, 80, 200, 350>>],
       [type |-> "vehicle", confidence |-> 91, timestamp |-> <<0, 0, 18>>,
        location |-> <<50, 400, 300, 200>>, plate |-> "DL-7XYZ-1234"] >>
MockDetections ==
    << [type |-> "person", confidence |-> 92, timestamp |-> <<0, 0, 5>>,
        location |-> <<120, 80, 200, 350>>],
       [type |-> "person", confidence |-> 88, timestamp |-> <<0, 0, 12>>,
        location |-> <<450, 100, 180, 320>>,
        watchlist_match |-> TRUE, watchlist_id |-> "WL-2847"],
       [type |-> "vehicle", confidence |-> 91, timestamp |-> <<0, 0, 18>>,
        location |-> <<50, 400, 300, 200>>, plate |-> "DL-7XYZ-1234"] >>

\* lines 187-194
MockAlerts ==
    << [severity |-> "HIGH",
        message |-> "WATCHLIST MATCH: Individual WL-2847 detected",
        timestamp |-> <<0, 0, 12>>, confidence |-> 88] >>

\* range(100), line 156
ProgressSteps == 100

\* line 268: the Reports tab shows results and the Export button
ReportsAlways == TRUE
ReportsAvailable == processed

\* lines 268-349: what the Reports tab renders, given processed and the click
RenderReports(p, clicked) ==
    IF p THEN (IF clicked THEN "download" ELSE "summary") ELSE "info"

\* sum(1 for a in alerts if a['severity'] == 'CRITICAL')
CriticalAlerts(als) ==
    Cardinality({k \in DOMAIN als : als[k].severity = "CRITICAL"})

\* lines 332-340
ReportRestamped(dets, als, t) ==
    [timestamp |-> t,
     detections |-> [k \in DOMAIN dets |-> [dets[k] EXCEPT !.timestamp = <<0, 0, t>>]],
     alerts |-> als,
     summary |-> [total_detections |-> Len(dets),
                  critical_alerts |-> CriticalAlerts(als)]]
Report(dets, als, t) ==
    [timestamp |-> t,
     detections |-> dets,
     alerts |-> als,
     summary |-> [total_detections |-> Len(dets),
                  critical_alerts |-> CriticalAlerts(als)]]

Session == [detections |-> detections, alerts |-> alerts, processed |-> processed]

\* lines 37-42, the first script run: no file, the slider at its default
AppInit ==
    /\ detections = <<>>
    /\ alerts = <<>>
    /\ processed = FALSE
    /\ uploaded_file = FALSE
    /\ confidence_threshold = 50
    /\ pc = "idle"
    /\ i = 0
    /\ download = <<>>
    /\ now = 0
    /\ exports = <<>>
    /\ run_threshold = 50
    /\ last_run = "none"
    /\ reports_tab = RenderReports(FALSE, FALSE)
    /\ completed_runs = 0

\* process_video is not called while the dashboard runs
VideoIdle ==
    /\ call = [frames |-> 0, fps |-> 0, openable |-> FALSE, frame_skip |-> 1]
    /\ cap = NoCapture
    /\ frame_count = 0
    /\ processed_count = 0
    /\ vpc = "idle"
    /\ exit = "none"
    /\ sampled = <<>>
    /\ reads = 0

InitVideo == VideoInit /\ AppInit
InitApp == VideoIdle /\ AppInit

\* A script run can be stopped at any st.* call and at any st.session_state
\* access. A rerun stopped before the Reports tab (line 265) leaves the tab as
\* last rendered; one that reaches it renders it without a click on Export.
RenderOrStop ==
    \E stopped \in BOOLEAN :
        reports_tab' = IF stopped THEN reports_tab
                       ELSE RenderReports(ReportsAvailable, FALSE)

\* lines 106-142: a file is put into the uploader, the script reruns
Upload ==
    /\ pc = "idle"
    /\ ~ uploaded_file
    /\ uploaded_file' = TRUE
    /\ download' = <<>>
    /\ RenderOrStop
    /\ UNCHANGED <<detections, alerts, processed, confidence_threshold, pc, i, now,
                   exports, run_threshold, last_run, completed_runs>>
    /\ UNCHANGED videoVars

\* lines 106, 200-201: the file is removed from the uploader
RemoveUpload ==
    /\ pc = "idle"
    /\ uploaded_file
    /\ uploaded_file' = FALSE
    /\ download' = <<>>
    /\ RenderOrStop
    /\ UNCHANGED <<detections, alerts, processed, confidence_threshold, pc, i, now,
                   exports, run_threshold, last_run, completed_runs>>
    /\ UNCHANGED videoVars

\* A rerun that changes nothing the model holds: the Frame Skip slider (lines
\* 79-85), the Detection Mode selectbox (lines 60-64) or the download button
\* (line 342). Export is found unclicked, so the download button is gone.
Rerun ==
    /\ pc = "idle"
    /\ download' = <<>>
    /\ RenderOrStop
    /\ UNCHANGED <<detections, alerts, processed, uploaded_file, confidence_threshold,
                   pc, i, now, exports, run_threshold, last_run, completed_runs>>
    /\ UNCHANGED videoVars

\* lines 70-77: the slider is moved, the script reruns
SetConfidence ==
    /\ pc = "idle"
    /\ \E t \in Thresholds \ {confidence_threshold} : confidence_threshold' = t
    /\ download' = <<>>
    /\ RenderOrStop
    /\ UNCHANGED <<detections, alerts, processed, uploaded_file, pc, i, now,
                   exports, run_threshold, last_run, completed_runs>>
    /\ UNCHANGED videoVars

\* lines 147-153: Start Analysis is clicked, the script enters the progress loop
StartAnalysis ==
    /\ pc = "idle"
    /\ uploaded_file
    /\ completed_runs < MaxRuns
    /\ pc' = "loop"
    /\ i' = 0
    /\ download' = <<>>
    /\ exports' = <<>>
    /\ last_run' = "running"
    /\ UNCHANGED <<detections, alerts, processed, uploaded_file, confidence_threshold,
                   now, run_threshold, reports_tab, completed_runs>>
    /\ UNCHANGED videoVars

\* lines 156-159: one iteration of the progress loop
ProgressStep ==
    /\ pc = "loop"
    /\ i < ProgressSteps
    /\ i' = i + 1
    /\ UNCHANGED <<detections, alerts, processed, uploaded_file, confidence_threshold,
                   pc, download, now, exports, run_threshold, last_run, reports_tab,
                   completed_runs>>
    /\ UNCHANGED videoVars

\* The run is stopped before line 196 has stored processed: at one of the st.*
\* calls of lines 149-159, or at the st.session_state access of line 162, 187 or
\* 196, before its write. A rerun finds the button unclicked and renders the
\* Reports tab; Stop leaves the tab as last rendered.
Interrupt ==
    /\ pc \in {"loop", "alerts", "processed"}
    /\ pc' = "idle"
    /\ i' = 0
    /\ last_run' = "interrupted"
    /\ RenderOrStop
    /\ UNCHANGED <<detections, alerts, processed, uploaded_file, confidence_threshold,
                   download, now, exports, run_threshold, completed_runs>>
    /\ UNCHANGED videoVars

\* lines 162-184: the loop is over, detections is stored
WriteDetectionsAppending ==
    /\ pc = "loop"
    /\ i = ProgressSteps
    /\ detections' = detections \o MockDetections
    /\ pc' = "alerts"
    /\ UNCHANGED <<alerts, processed, uploaded_file, confidence_threshold, i, download,
                   now, exports, run_threshold, last_run, reports_tab, completed_runs>>
    /\ UNCHANGED videoVars
WriteDetections ==
    /\ pc = "loop"
    /\ i = ProgressSteps
    /\ detections' = MockDetections
    /\ pc' = "alerts"
    /\ UNCHANGED <<alerts, processed, uploaded_file, confidence_threshold, i, download,
                   now, exports, run_threshold, last_run, reports_tab, completed_runs>>
    /\ UNCHANGED videoVars

\* lines 187-194: alerts is stored
WriteAlerts ==
    /\ pc = "alerts"
    /\ alerts' = MockAlerts
    /\ pc' = "processed"
    /\ UNCHANGED <<detections, processed, uploaded_file, confidence_threshold, i,
                   download, now, exports, run_threshold, last_run, reports_tab,
                   completed_runs>>
    /\ UNCHANGED videoVars

\* line 196, then the rest of the script: processed is stored; the script then
\* runs on to render the Reports tab, unless it is stopped at st.success (line
\* 198) or a later st.* call, which leaves the tab as last rendered
FinishAnalysis ==
    /\ pc = "processed"
    /\ processed' = TRUE
    /\ pc' = "idle"
    /\ i' = 0
    /\ last_run' = "completed"
    /\ run_threshold' = confidence_threshold
    /\ completed_runs' = completed_runs + 1
    /\ \E stopped \in BOOLEAN :
          reports_tab' = IF stopped THEN reports_tab
                         ELSE RenderReports(processed', FALSE)
    /\ UNCHANGED <<detections, alerts, uploaded_file, confidence_threshold, download,
                   now, exports>>
    /\ UNCHANGED videoVars

\* lines 268, 329-347: Export Report is clicked and the report is built; the
\* download button offers it unless the script is stopped at line 342
ExportReport ==
    /\ pc = "idle"
    /\ ReportsAvailable
    /\ now < MaxClock
    /\ \E offered \in BOOLEAN :
          /\ download' = IF offered THEN <<Report(detections, alerts, now)>> ELSE <<>>
          /\ reports_tab' = RenderReports(TRUE, offered)
    /\ now' = now + 1
    /\ UNCHANGED <<detections, alerts, processed>>
    /\ exports' = Append(exports,
                         [report |-> Report(detections, alerts, now),
                          before |-> Session,
                          after |-> [detections |-> detections', alerts |-> alerts',
                                     processed |-> processed']])
    /\ UNCHANGED <<uploaded_file, confidence_threshold, pc, i, run_threshold, last_run,
                   completed_runs>>
    /\ UNCHANGED videoVars

AppNext ==
    \/ Rerun
    \/ Upload
    \/ RemoveUpload
    \/ SetConfidence
    \/ StartAnalysis
    \/ ProgressStep
    \/ Interrupt
    \/ WriteDetections
    \/ WriteAlerts
    \/ FinishAnalysis
    \/ ExportReport

VideoNext ==
    \/ OpenFails
    \/ OpenSucceeds
    \/ ReadExhausted
    \/ ReadSkipped
    \/ ProcessFrame
    \/ ProcessFrameRaises

SpecVideo == InitVideo /\ [][VideoNext]_vars
SpecApp == InitApp /\ [][AppNext]_vars

\* ================================================================ claims
Ceil(n, d) == (n + d - 1) \div d
Ended == vpc = "returned" /\ exit = "exhausted"

\* a == b for the fraction a = <<num, den>> and the quotient n / d
FractionIs(a, n, d) == a[2] # 0 /\ d # 0 /\ a[1] * d = n * a[2]

\* 'HH:MM:SS' in seconds
Seconds(ts) == ts[1] * 3600 + ts[2] * 60 + ts[3]

HasWatchlistId(d) == "watchlist_id" \in DOMAIN d /\ d.watchlist_id # ""

\* ---------------------------------------------------------------- C1
\* C1 as stated: a source read to exhaustion has ceil(frame_count/skip) frames
\* processed (0 for an empty source), so one frame when skip > frame_count >= 1.
C1_CeilSampled ==
    Ended =>
        /\ processed_count = (IF call.frames > 0 THEN Ceil(call.frames, call.frame_skip) ELSE 0)
        /\ (call.frame_skip > call.frames /\ call.frames >= 1 => processed_count = 1)

\* C1 amended: a source read to exhaustion has floor(frame_count/skip) frames
\* processed, so none when skip > frame_count.
C1_FloorSampled ==
    Ended =>
        /\ processed_count = call.frames \div call.frame_skip
        /\ Len(sampled) = processed_count
        /\ frame_count = call.frames
        /\ (call.frame_skip > call.frames => processed_count = 0)

C1_Witness ==
    /\ Ended
    /\ call.frames % call.frame_skip # 0
    /\ call.frames > call.frame_skip
    /\ processed_count >= 1

\* ---------------------------------------------------------------- C2
\* C2 as stated: after a completed run no detection of the session has a
\* confidence below the threshold the run was made with.
C2_NoDetectionBelowThreshold ==
    (completed_runs >= 1 /\ last_run = "completed") =>
        \A k \in DOMAIN detections : detections[k].confidence >= run_threshold

\* ---------------------------------------------------------------- C3
\* C3 as stated: in every session state a script run leaves, every detection with a non-empty
\* watchlist_id has exactly one HIGH alert with its timestamp, and a detection
\* without one has no alert at its timestamp.
C3_WatchlistAlert ==
    pc = "idle" => \A k \in DOMAIN detections :
        LET d == detections[k]
            mine == {a \in DOMAIN alerts : alerts[a].timestamp = d.timestamp}
        IN  IF HasWatchlistId(d)
            THEN Cardinality({a \in mine : alerts[a].severity = "HIGH"}) = 1
            ELSE mine = {}

\* ---------------------------------------------------------------- C4
\* C4: while processed is false the Reports tab shows only its notice: no report
\* is built or offered for download, and every report built was built from a
\* processed session.
C4_NoExportBeforeProcessed ==
    /\ ~ processed => (download = <<>> /\ exports = <<>> /\ reports_tab = "info")
    /\ \A k \in DOMAIN exports : exports[k].before.processed

C4_Witness ==
    /\ ~ processed
    /\ last_run = "interrupted"
    /\ reports_tab = "info"
    /\ download = <<>>

\* ---------------------------------------------------------------- C5
\* C5 as stated: a run that was started and interrupted inside its loop leaves
\* processed = false, whatever runs came before it.
C5_InterruptedLeavesUnprocessed ==
    last_run = "interrupted" => ~ processed

\* ---------------------------------------------------------------- C6
\* C6 as stated: the processed frames are those of zero-based index 0, skip,
\* 2*skip, ... and each timestamp is the zero-based index over fps.
C6_ZeroBasedSamples ==
    /\ \A k \in DOMAIN sampled :
          /\ sampled[k].index = (k - 1) * call.frame_skip
          /\ FractionIs(sampled[k].timestamp, sampled[k].index, call.fps)
    /\ Ended => Len(sampled) = (IF call.frames > 0 THEN Ceil(call.frames, call.frame_skip) ELSE 0)

\* C6 amended: the processed frames are those of one-based ordinal skip, 2*skip,
\* ... up to frame_count (zero-based index k*skip - 1; the first frame is sampled
\* only when skip = 1), and each timestamp is the one-based ordinal over fps;
\* frame_count = 300, fps = 30, skip = 5 gives indices 4, 9, ..., 299, 60 samples
\* and a last timestamp of 300/30.
C6_OneBasedSamples ==
    /\ \A k \in DOMAIN sampled :
          /\ sampled[k].index = k * call.frame_skip - 1
          /\ sampled[k].index < call.frames
          /\ FractionIs(sampled[k].timestamp, sampled[k].index + 1, call.fps)
    /\ Ended => Len(sampled) = call.frames \div call.frame_skip
    /\ (Ended /\ call.frames = 300 /\ call.fps = 30 /\ call.frame_skip = 5) =>
          /\ Len(sampled) = 60
          /\ {sampled[k].index : k \in DOMAIN sampled} = {5 * k - 1 : k \in 1 .. 60}
          /\ FractionIs(sampled[60].timestamp, 10, 1)

C6_Witness ==
    /\ Ended
    /\ call.frames = 300 /\ call.fps = 30 /\ call.frame_skip = 5
    /\ Len(sampled) = 60

\* ---------------------------------------------------------------- C7
\* C7: the exports made of one frozen session agree on detections, alerts and
\* summary, and an export leaves the session as it found it.
C7_ExportIdempotent ==
    /\ \A k \in DOMAIN exports :
          /\ exports[k].before = exports[k].after
          /\ exports[k].after = Session
    /\ \A j, k \in DOMAIN exports :
          /\ exports[j].report.detections = exports[k].report.detections
          /\ exports[j].report.alerts = exports[k].report.alerts
          /\ exports[j].report.summary = exports[k].report.summary

C7_Witness ==
    /\ Len(exports) >= 2
    /\ exports[1].report.timestamp # exports[2].report.timestamp
    /\ exports[1].report.detections # <<>>

\* ---------------------------------------------------------------- C8
\* C8: session.detections is in non-decreasing timestamp order in every state,
\* and so is the detections list of every report exported.
C8_DetectionsOrdered ==
    /\ \A j, k \in DOMAIN detections :
          j < k => Seconds(detections[j].timestamp) <= Seconds(detections[k].timestamp)
    /\ \A e \in DOMAIN exports :
          LET ds == exports[e].report.detections
          IN  \A j, k \in DOMAIN ds :
                 j < k => Seconds(ds[j].timestamp) <= Seconds(ds[k].timestamp)

C8_Witness ==
    /\ Len(detections) >= 2
    /\ exports # <<>>
    /\ Len(exports[1].report.detections) >= 2

\* ---------------------------------------------------------------- C9
\* C9: when process_video has returned from its frame loop, by exhaustion or by
\* the 'q' key, the capture is released; after the 'q' key no frame beyond the one
\* shown was read.
C9_ReleasedOnReturn ==
    /\ (vpc = "returned" /\ exit \in {"exhausted", "stopped"}) =>
          (cap.released /\ ~ cap.opened)
    /\ exit \in {"exhausted", "stopped"} => vpc = "returned"
    /\ exit = "stopped" =>
          /\ reads = frame_count
          /\ cap.pos = sampled[Len(sampled)].index + 1

C9_Witness ==
    /\ vpc = "returned"
    /\ exit = "stopped"
    /\ cap.pos < cap.total
    /\ cap.released

\* ---------------------------------------------------------------- C10
\* C10: after one or more completed runs the session holds the detections and
\* alerts of a single run, and every report's summary.total_detections is the
\* length of that detections list.
C10_RunsOverwrite ==
    completed_runs >= 1 =>
        /\ detections = MockDetections
        /\ alerts = MockAlerts
        /\ \A k \in DOMAIN exports :
              /\ exports[k].report.summary.total_detections = Len(detections)
              /\ exports[k].report.detections = detections

C10_Witness ==
    /\ completed_runs >= 2
    /\ exports # <<>>
    /\ exports[1].report.summary.total_detections = Len(MockDetections)
====
